---- MODULE Spec2Model ----
(***************************************************************************)
(* State-machine model of k8s-net-attach-def-controller:                   *)
(*   pkg/controller/utils.go       the network-selection parser            *)
(*   pkg/controller/controller.go  event handlers, work queue worker,      *)
(*                                 sync, net-attach-def deletion recovery, *)
(*                                 Start                                   *)
(*   main.go                       signal handling and process exit        *)
(* Strings are sequences of one-character strings, so that Split,          *)
(* TrimSpace and the label pattern are computed character by character.    *)
(***************************************************************************)
EXTENDS Integers, Sequences, FiniteSets, TLC

(***************************************************************************)
(* Bounds of the model.                                                    *)
(***************************************************************************)
\* number of changes the environment (users, other controllers) makes to
\* Services, Pods and Endpoints after the controller was constructed
MaxEnv == 1
\* deletions of the net-attach-def by a user
MaxNadDeletes == 1
\* the rate limiter counts the enqueues of a key up to this number
MaxWhen == 2

(***************************************************************************)
(* Strings.                                                                *)
(***************************************************************************)
\* F applied to the value of e: e is evaluated once, however often F uses
\* its argument
Eval(e, F(_)) == CHOOSE y \in {F(x) : x \in {e}} : TRUE

LowerAlnum == {"a", "b", "c", "m", "n", "0", "1"}

IsSpace(c) == c \in {" ", "\t"}

\* strings.Split(s, sep) for a one-character separator: k separators give
\* k+1 fields, and the empty string gives one empty field
RECURSIVE Split(_, _)
Split(str, sep) ==
    Eval(str, LAMBDA s :
        IF \A i \in 1..Len(s) : s[i] # sep
        THEN <<s>>
        ELSE Eval(CHOOSE k \in 1..Len(s) :
                      s[k] = sep /\ \A j \in 1..(k - 1) : s[j] # sep,
                  LAMBDA i : <<SubSeq(s, 1, i - 1)>>
                             \o Split(SubSeq(s, i + 1, Len(s)), sep)))

\* strings.TrimSpace
RECURSIVE TrimSpace(_)
TrimSpace(str) ==
    Eval(str, LAMBDA s :
        IF s = <<>> THEN s
        ELSE IF IsSpace(s[1]) THEN TrimSpace(Tail(s))
        ELSE IF IsSpace(s[Len(s)]) THEN TrimSpace(SubSeq(s, 1, Len(s) - 1))
        ELSE s)

\* regexp ^[a-z0-9]([-a-z0-9]*[a-z0-9])?$  (utils.go:121)
validNameRegex(str) ==
    \E u \in {str} :
        /\ Len(u) >= 1
        /\ u[1] \in LowerAlnum
        /\ u[Len(u)] \in LowerAlnum
        /\ \A i \in 1..Len(u) : u[i] \in LowerAlnum \cup {"-"}

(***************************************************************************)
(* utils.go: the network-selection parser.                                 *)
(***************************************************************************)
NoElement == [Namespace |-> <<>>, Name |-> <<>>, InterfaceRequest |-> <<>>]

\* the check of the three units against the pattern (utils.go:121-135)
checkedElement(namespace, name, netInterface) ==
    IF \E u \in {namespace, name, netInterface} : ~validNameRegex(u) /\ Len(u) > 0
    THEN [err |-> TRUE, el |-> NoElement]
    ELSE [err |-> FALSE,
          el  |-> [Namespace |-> namespace, Name |-> name,
                   InterfaceRequest |-> netInterface]]

\* the split of the name at '@' (utils.go:107-119)
nameAndInterface(namespace, rest) ==
    Eval(Split(rest, "@"), LAMBDA units :
        IF Len(units) > 2
        THEN [err |-> TRUE, el |-> NoElement]
        ELSE checkedElement(namespace, units[1],
                            IF Len(units) = 1 THEN <<>> ELSE units[2]))

\* parsePodNetworkSelectionElement (utils.go:89-138): [err, el]
parsePodNetworkSelectionElement(selection, defaultNamespace) ==
    Eval(Split(selection, "/"), LAMBDA units :
        IF Len(units) > 2
        THEN [err |-> TRUE, el |-> NoElement]
        ELSE IF Len(units) = 1
        THEN nameAndInterface(defaultNamespace, units[1])
        ELSE nameAndInterface(units[1], units[2]))

(***************************************************************************)
(* encoding/json, as far as the selection annotation uses it: the decoder  *)
(* accepts  null  and arrays of  null  or of objects whose members are     *)
(* string-valued, without white space or escapes; every other text is      *)
(* reported as an error.  The annotations of this model are of these       *)
(* shapes or are not JSON at all.                                          *)
(***************************************************************************)
Quote == "\""
StrNull      == <<"n", "u", "l", "l">>
StrName      == <<"n", "a", "m", "e">>
StrNamespace == <<"n", "a", "m", "e", "s", "p", "a", "c", "e">>
StrInterface == <<"i", "n", "t", "e", "r", "f", "a", "c", "e">>

\* a JSON string literal without escapes: [ok, v]
jsonString(str) ==
    Eval(str, LAMBDA t :
        IF /\ Len(t) >= 2
           /\ t[1] = Quote
           /\ t[Len(t)] = Quote
           /\ \A i \in 2..(Len(t) - 1) : t[i] \notin {Quote, "\\"}
        THEN [ok |-> TRUE, v |-> SubSeq(t, 2, Len(t) - 1)]
        ELSE [ok |-> FALSE, v |-> <<>>])

\* the positions of the commas of s that are outside braces
topCommas(s) ==
    {i \in 1..Len(s) :
        /\ s[i] = ","
        /\ Cardinality({j \in 1..i : s[j] = "{"})
             = Cardinality({j \in 1..i : s[j] = "}"})}

\* the fields of s between the positions of cuts, from position from on
RECURSIVE fieldsFrom(_, _, _)
fieldsFrom(s, cuts, from) ==
    Eval(from, LAMBDA f :
        IF \A c \in cuts : c < f
        THEN <<SubSeq(s, f, Len(s))>>
        ELSE Eval(CHOOSE c \in cuts : c >= f /\ \A d \in cuts : d >= f => c <= d,
                  LAMBDA c : <<SubSeq(s, f, c - 1)>> \o fieldsFrom(s, cuts, c + 1)))

\* the elements of the text of an array
SplitTop(str) == Eval(str, LAMBDA s : Eval(topCommas(s), LAMBDA cuts : fieldsFrom(s, cuts, 1)))

\* one member  "key":"value"  of an object: [ok, key, v]
jsonMember(t) ==
    Eval(Split(t, ":"), LAMBDA kv :
        IF Len(kv) # 2 THEN [ok |-> FALSE, key |-> <<>>, v |-> <<>>]
        ELSE Eval(<<jsonString(kv[1]), jsonString(kv[2])>>, LAMBDA p :
                 [ok |-> p[1].ok /\ p[2].ok, key |-> p[1].v, v |-> p[2].v]))

\* one decoded member stored into a NetworkSelectionElement (json tags
\* name, namespace, interface; unknown keys are ignored)
jsonField(el, m) ==
    IF m.key = StrName THEN [el EXCEPT !.Name = m.v]
    ELSE IF m.key = StrNamespace THEN [el EXCEPT !.Namespace = m.v]
    ELSE IF m.key = StrInterface THEN [el EXCEPT !.InterfaceRequest = m.v]
    ELSE el

\* the decoded members ms stored in order, the first n of them
RECURSIVE jsonFields(_, _)
jsonFields(ms, n) ==
    IF n = 0 THEN NoElement
    ELSE Eval(jsonFields(ms, n - 1), LAMBDA el : jsonField(el, ms[n]))

\* one array element decoded into *NetworkSelectionElement: [ok, nil, el]
jsonElement(str) ==
    Eval(str, LAMBDA t :
        IF t = StrNull THEN [ok |-> TRUE, nil |-> TRUE, el |-> NoElement]
        ELSE IF Len(t) >= 2 /\ t[1] = "{" /\ t[Len(t)] = "}"
        THEN Eval(IF Len(t) = 2 THEN <<>>
                  ELSE Eval(Split(SubSeq(t, 2, Len(t) - 1), ","), LAMBDA fs :
                           <<>> \o [i \in 1..Len(fs) |-> jsonMember(fs[i])]),
                  LAMBDA ms :
                      [ok  |-> \A i \in 1..Len(ms) : ms[i].ok,
                       nil |-> FALSE,
                       el  |-> jsonFields(ms, Len(ms))])
        ELSE [ok |-> FALSE, nil |-> FALSE, el |-> NoElement])

\* json.Unmarshal([]byte(podNetworks), &networkSelections) (utils.go:62):
\* [err, nets, nil], nil telling that some element is a nil pointer
jsonUnmarshal(str) ==
    Eval(str, LAMBDA s :
        IF s = StrNull THEN [err |-> FALSE, nets |-> <<>>, nil |-> FALSE]
        ELSE IF Len(s) = 2 /\ s[1] = "[" /\ s[2] = "]"
        THEN [err |-> FALSE, nets |-> <<>>, nil |-> FALSE]
        ELSE IF Len(s) > 2 /\ s[1] = "[" /\ s[Len(s)] = "]"
        THEN Eval(Eval(SplitTop(SubSeq(s, 2, Len(s) - 1)), LAMBDA ts :
                      <<>> \o [i \in 1..Len(ts) |-> jsonElement(ts[i])]),
                  LAMBDA es :
                      IF \A i \in 1..Len(es) : es[i].ok
                      THEN [err  |-> FALSE,
                            nets |-> [i \in 1..Len(es) |-> es[i].el],
                            nil  |-> \E i \in 1..Len(es) : es[i].nil]
                      ELSE [err |-> TRUE, nets |-> <<>>, nil |-> FALSE])
        ELSE [err |-> TRUE, nets |-> <<>>, nil |-> FALSE])

\* the comma separated path returning the elements of the units that parsed
\* and no error
commaSeparatedPartial(podNetworks, defaultNamespace) ==
    Eval(Eval(Split(podNetworks, ","), LAMBDA units :
             <<>> \o [i \in 1..Len(units) |->
                         parsePodNetworkSelectionElement(TrimSpace(units[i]),
                                                         defaultNamespace)]),
         LAMBDA es :
             Eval(SelectSeq(es, LAMBDA e : ~e.err), LAMBDA ok :
                 [err |-> FALSE, nets |-> [i \in 1..Len(ok) |-> ok[i].el]]))

\* the comma separated path (utils.go:67-76): every unit is trimmed and
\* parsed; the first unit in error aborts the whole list
commaSeparated(podNetworks, defaultNamespace) ==
    Eval(Eval(Split(podNetworks, ","), LAMBDA units :
             <<>> \o [i \in 1..Len(units) |->
                         parsePodNetworkSelectionElement(TrimSpace(units[i]),
                                                         defaultNamespace)]),
         LAMBDA es :
             IF \E i \in 1..Len(es) : es[i].err
             THEN [err |-> TRUE, nets |-> <<>>]
             ELSE [err |-> FALSE, nets |-> [i \in 1..Len(es) |-> es[i].el]])

\* the namespace fill assigning the default to every element
fillNamespaceAlways(el, defaultNamespace) ==
    [el EXCEPT !.Namespace = defaultNamespace]

\* the namespace fill (utils.go:80-84)
fillNamespace(el, defaultNamespace) ==
    IF el.Namespace = <<>> THEN [el EXCEPT !.Namespace = defaultNamespace] ELSE el

\* the result of parsePodNetworkSelections once the text is decoded by
\* json (j) or, json failing, as a comma separated list
filledSelections(j, podNetworks, defaultNamespace) ==
    IF ~j.err
    THEN IF j.nil
         THEN [err |-> FALSE, panic |-> TRUE, nets |-> <<>>]
         ELSE [err   |-> FALSE,
               panic |-> FALSE,
               nets  |-> [i \in 1..Len(j.nets) |->
                             fillNamespace(j.nets[i], defaultNamespace)]]
    ELSE Eval(commaSeparated(podNetworks, defaultNamespace), LAMBDA r :
             IF r.err
             THEN [err |-> TRUE, panic |-> FALSE, nets |-> <<>>]
             ELSE [err   |-> FALSE,
                   panic |-> FALSE,
                   nets  |-> [i \in 1..Len(r.nets) |->
                                 fillNamespace(r.nets[i], defaultNamespace)]])

\* parsePodNetworkSelections (utils.go:52-87): [err, panic, nets].  panic
\* is the nil-pointer dereference of the namespace fill on a nil element.
parsePodNetworkSelections(podNetworks, defaultNamespace) ==
    Eval(podNetworks, LAMBDA s :
        IF Len(s) = 0
        THEN [err |-> TRUE, panic |-> FALSE, nets |-> <<>>]
        ELSE Eval(jsonUnmarshal(s), LAMBDA j :
                 filledSelections(j, s, defaultNamespace)))

\* the comparison with the namespace-qualified name of the element
isInNetworkSelectionElementsArrayQualified(name, networks) ==
    \E i \in 1..Len(networks) :
        name = networks[i].Namespace \o <<"/">> \o networks[i].Name

\* isInNetworkSelectionElementsArray (utils.go:41-49)
isInNetworkSelectionElementsArray(name, networks) ==
    \E i \in 1..Len(networks) : name = networks[i].Name
(***************************************************************************)
(* The cluster objects of the model.                                       *)
(***************************************************************************)
Svcs == {"s1"}
Pods == {"p1", "p2"}
Kinds == {"nad", "ep", "svc", "pod"}

\* every Service and Pod of the model lives in this namespace
SvcNamespace == <<"n">>

\* values of the k8s.v1.cni.cncf.io/networks annotation of a Service
AnnA     == <<"a">>
AnnAB    == <<"a", ",", " ", "b">>
AnnBad   == <<"a", "/", "b", "/", "c">>
AnnEmpty == <<"[", "]">>
SvcAnnValues == {AnnA, AnnAB, AnnBad, AnnEmpty}

\* values of the k8s.v1.cni.cncf.io/networks-status annotation of a Pod:
\* "ok" reports network a, "other" reports network b only, "bad" is not
\* JSON and "missing" is no annotation at all
StatusKinds == {"ok", "other", "bad", "missing"}
IPOf == [p \in Pods |-> IF p = "p1" THEN "10.0.0.1" ELSE "10.0.0.2"]

\* json.Unmarshal of the status annotation (controller.go:201): [err, list]
networksStatus(p, status) ==
    IF status = "ok"
    THEN [err |-> FALSE, list |-> <<[Name |-> <<"a">>, IPs |-> <<IPOf[p]>>]>>]
    ELSE IF status = "other"
    THEN [err |-> FALSE, list |-> <<[Name |-> <<"b">>, IPs |-> <<IPOf[p]>>]>>]
    ELSE [err |-> TRUE, list |-> <<>>]

\* the Service has two ports with named target ports; a Pod declares the
\* first name (container port 80), the second (container port 81), both or
\* none: the set of the container ports it declares
PodPorts == SUBSET {80, 81}

NoSel == [has |-> FALSE, val |-> <<>>]
\* a Pod with or without the k8s.v1.cni.cncf.io/networks annotation
PodSel(hs) == IF hs THEN [has |-> TRUE, val |-> AnnA] ELSE NoSel
NoOwner == "none"
\* an address written by the platform's endpoints controller, not by sync
PrimaryAddr == [ip |-> "192.168.0.9", pod |-> "p1", rv |-> 0]
PrimarySubsets == {[addrs |-> {PrimaryAddr}, ports |-> {80}]}

VARIABLES
    apiSvc,        \* Services in the API server: [exists, sel, rv]
    apiPod,        \* Pods in the API server: [exists, labeled, sel, status, port, rv]
    apiEp,         \* Endpoints in the API server: [exists, subsets, owner, rv]
    cSvc,          \* serviceLister: the Service informer's cache
    cPod,          \* podsLister: the Pod informer's cache
    cEp,           \* endpointsLister: the Endpoints informer's cache
    synced,        \* the informers whose HasSynced reports true
    stopCh,        \* stopChan is closed
    mainPc,        \* position of main / Start
    waiting,       \* keys held by the delaying queue of AddRateLimited
    limiter,       \* rate limiter: per key, the calls of When counted so far
    queue,         \* workqueue: keys in order
    dirty,         \* workqueue: keys to be processed
    processing,    \* workqueue: keys handed out by Get and not yet Done
    shuttingDown,  \* workqueue: ShutDown was called
    wpc,           \* position of the worker goroutine
    w,             \* the sync in flight: key, calls and events so far
    last,          \* per key, the input and output of the last successful sync
    budget,        \* environment changes left
    apiErr,        \* some API call of the controller has failed
    nad,           \* the net-attach-def, its informer and its delete handler
    pcall          \* a call of parsePodNetworkSelections: arguments and result

vars == <<apiSvc, apiPod, apiEp, cSvc, cPod, cEp, synced, stopCh, mainPc,
          waiting, limiter, queue, dirty, processing, shuttingDown, wpc, w, last,
          budget, apiErr, nad, pcall>>

apiVars   == <<apiSvc, apiPod, apiEp>>
cacheVars == <<cSvc, cPod, cEp>>
queueVars == <<waiting, limiter, queue, dirty, processing, shuttingDown>>
lifeVars  == <<synced, stopCh, mainPc>>

\* no call of the parser made on its own
NoResult == [err |-> FALSE, panic |-> FALSE, nets |-> <<>>]
NoCall == [podNetworks |-> <<>>, defaultNamespace |-> <<>>, called |-> FALSE,
           out |-> NoResult]

NoSvc == [exists |-> FALSE, sel |-> NoSel, rv |-> 0]
NoPod == [exists |-> FALSE, labeled |-> FALSE, sel |-> NoSel,
          status |-> "missing", port |-> {}, rv |-> 0]
NoEp  == [exists |-> FALSE, subsets |-> {}, owner |-> NoOwner, rv |-> 0]
NoSnap == [svc |-> NoSvc, pods |-> [p \in Pods |-> NoPod]]
NoSync == [key |-> "none", upd |-> 0, warn |-> 0, normSvc |-> 0, normEp |-> 0,
           err |-> FALSE, pend |-> NoEp, snap |-> NoSnap, prev |-> {},
           sig |-> FALSE, prevOwner |-> NoOwner]
(***************************************************************************)
(* controller.go: sync, the computation of the subsets.                    *)
(***************************************************************************)
\* getNetworkAnnotations (utils.go:32-39)
getNetworkAnnotations(obj) == IF obj.sel.has THEN obj.sel.val ELSE <<>>

\* the addresses of one Pod: every IP of every status entry whose name is
\* selected (controller.go:207-227)
RECURSIVE podAddresses(_, _, _, _)
podAddresses(list, p, pod, networks) ==
    IF list = <<>> THEN <<>>
    ELSE (IF isInNetworkSelectionElementsArray(list[1].Name, networks)
          THEN [i \in 1..Len(list[1].IPs) |->
                   [ip |-> list[1].IPs[i], pod |-> p, rv |-> pod.rv]]
          ELSE <<>>)
         \o podAddresses(Tail(list), p, pod, networks)

\* podutil.FindPort for the named target port of every Service port, in
\* the order of svc.Spec.Ports (controller.go:228-242): the ports of one
\* Pod's subset
podPorts(pod) ==
    (IF 80 \in pod.port THEN <<80>> ELSE <<>>)
    \o (IF 81 \in pod.port THEN <<81>> ELSE <<>>)

\* the loop going on with a status that did not decode as if it had
RECURSIVE podSubsetsUnchecked(_, _, _)
podSubsetsUnchecked(ord, pods, networks) ==
    IF ord = <<>> THEN <<>>
    ELSE LET p  == ord[1]
             st == networksStatus(p, "ok")
         IN  <<[addrs |-> podAddresses(st.list, p, pods[p], networks),
                ports |-> podPorts(pods[p])]>>
             \o podSubsetsUnchecked(Tail(ord), pods, networks)

\* the loop over the listed Pods (controller.go:196-248): a Pod whose
\* status does not decode is skipped, every other Pod appends one subset
RECURSIVE podSubsets(_, _, _)
podSubsets(ord, pods, networks) ==
    IF ord = <<>> THEN <<>>
    ELSE LET p  == ord[1]
             st == networksStatus(p, pods[p].status)
         IN  (IF st.err THEN <<>>
              ELSE <<[addrs |-> podAddresses(st.list, p, pods[p], networks),
                      ports |-> podPorts(pods[p])]>>)
             \o podSubsets(Tail(ord), pods, networks)

Range(f) == {f[i] : i \in DOMAIN f}

\* a repack that keeps the subset of every Pod as it is
RepackPerPod(subs) ==
    {[addrs |-> Range(subs[i].addrs), ports |-> Range(subs[i].ports)] :
        i \in {j \in DOMAIN subs : subs[j].addrs # <<>>}}

\* endpoints.RepackSubsets (controller.go:261): every port is mapped to the
\* set of addresses offering it (a subset without ports under a sentinel),
\* the ports with the same address set form one subset, and the result is
\* sorted: a set here
SentinelPort == -1
RepackSubsets(subs) ==
    Eval(subs, LAMBDA subsets :
        LET portsOf(sub) == IF sub.ports = <<>> THEN {SentinelPort}
                            ELSE Range(sub.ports)
            allPorts     == UNION {portsOf(subsets[i]) : i \in DOMAIN subsets}
            addrsOf(pt)  == UNION {Range(subsets[i].addrs) :
                                      i \in {j \in DOMAIN subsets :
                                                pt \in portsOf(subsets[j])}}
            addrSets     == {addrsOf(pt) : pt \in allPorts} \ {{}}
        IN  {[addrs |-> A,
              ports |-> {pt \in allPorts \ {SentinelPort} : addrsOf(pt) = A}] :
             A \in addrSets})

\* labels.Set(svc.Spec.Selector).AsSelector() and podsLister.List
\* (controller.go:179-180): the cached Pods carrying the selected label
matchingPods(pods) == {p \in Pods : pods[p].exists /\ pods[p].labeled}

\* the orders in which the lister may return a set of Pods
Orders(S) == {o \in [1..Cardinality(S) -> S] : Range(o) = S}

\* what sync reads from the caches
Snapshot(k, svcs, pods) ==
    [svc  |-> svcs[k],
     pods |-> [p \in Pods |-> IF p \in matchingPods(pods) THEN pods[p] ELSE NoPod]]

\* the network selections of a Service (controller.go:162-167)
svcNetworks(svc) == parsePodNetworkSelections(getNetworkAnnotations(svc), SvcNamespace)

\* sync with the subsets of the listed Pods added to those the Endpoints
\* object held before
keptSubsets(ord, pods, networks, ep) ==
    ep.subsets \cup RepackSubsets(podSubsets(ord, pods, networks))

\* sync with the loop assigning the subset of each Pod instead of appending
\* it: the subset of the last listed Pod is all that is left
lastSubset(ord, pods, networks, ep) ==
    RepackSubsets(podSubsets(IF ord = <<>> THEN <<>> ELSE <<ord[Len(ord)]>>,
                             pods, networks))

\* ep.Subsets as sync sets it (controller.go:194-261); ep is the cached
\* Endpoints object sync got from the lister
newSubsets(ord, pods, networks, ep) ==
    RepackSubsets(podSubsets(ord, pods, networks))

\* the policy check accepting two networks
threeNetworks(networks) == Len(networks) > 2

\* the policy check of sync (controller.go:171)
tooManyNetworks(networks) == Len(networks) > 1

(***************************************************************************)
(* The work queue (client-go workqueue, created at controller.go:86).      *)
(***************************************************************************)
\* the process runs: main has not returned, klog.Fatalf was not called
\* and no goroutine has panicked
Alive == mainPc \notin {"exited", "fatal", "crashed"}

\* workqueue.AddRateLimited (controller.go:285): the key enters the
\* queue after the rate limiter's delay
\* workqueue.DefaultControllerRateLimiter (controller.go:86): the per-item
\* exponential limiter, 5 ms doubled with every call of When for the key
\* and at most 1000 s, in milliseconds; no Forget resets the count
baseDelay == 5
maxDelay == 1000000
When(n) == IF baseDelay * 2^n > maxDelay THEN maxDelay ELSE baseDelay * 2^n

\* calls[k] calls for key k: every call asks the rate limiter, which counts
\* it, and hands the key to the delaying queue
RateLimited(calls) ==
    /\ waiting' = IF shuttingDown THEN waiting
                  ELSE waiting \cup {k \in Svcs : calls[k] > 0}
    /\ limiter' = [k \in Svcs |->
                      IF limiter[k] + calls[k] > MaxWhen THEN MaxWhen
                      ELSE limiter[k] + calls[k]]

AddRateLimited(keys) ==
    RateLimited([k \in Svcs |-> IF k \in keys THEN 1 ELSE 0])

\* workqueue.Add that drops a key whose sync is in flight instead of marking
\* it dirty
QueueAddDropInFlight(k) ==
    IF shuttingDown \/ k \in dirty \/ k \in processing
    THEN UNCHANGED <<queue, dirty>>
    ELSE /\ dirty' = dirty \cup {k}
         /\ queue' = Append(queue, k)

\* workqueue.Add, called when the delay of a key has elapsed
QueueAdd(k) ==
    IF shuttingDown \/ k \in dirty
    THEN UNCHANGED <<queue, dirty>>
    ELSE /\ dirty' = dirty \cup {k}
         /\ queue' = IF k \in processing THEN queue ELSE Append(queue, k)

DelayElapsed(k) ==
    /\ Alive
    /\ k \in waiting
    /\ waiting' = waiting \ {k}
    /\ UNCHANGED limiter
    /\ QueueAdd(k)
    /\ UNCHANGED <<processing, shuttingDown>>
    /\ UNCHANGED <<apiVars, cacheVars, lifeVars, wpc, w, last, budget, apiErr, nad, pcall>>

(***************************************************************************)
(* controller.go: the event handlers.                                      *)
(***************************************************************************)
\* objectChanged (utils.go:15-19)
objectChanged(previous, current) == previous.rv # current.rv

\* networkAnnotationsChanged (utils.go:21-25)
networkAnnotationsChanged(previous, current) ==
    getNetworkAnnotations(previous) # getNetworkAnnotations(current)

\* the payload of a delete notification for an object whose deletion the
\* watch has missed and a relist has found: cache.DeletedFinalStateUnknown
\* in the place of the object
Tombstone == "DeletedFinalStateUnknown"

\* handleServiceEvent (controller.go:279-286): the keys it enqueues, k
\* being the key of the Service handed over.  cache.MetaNamespaceKeyFunc
\* reports an error for a payload that is no object, and nothing is
\* enqueued
handleServiceEvent(k) == IF k = Tombstone THEN {} ELSE {k}

\* handlePodEvent (controller.go:288-310): the keys it enqueues for a Pod,
\* svcs being the Service cache; a payload that is no Pod (NoPod stands
\* for the tombstone) fails the type assertion and is dropped
handlePodEvent(pod, svcs) ==
    IF ~pod.exists THEN {}
    ELSE IF ~pod.sel.has THEN {}
    ELSE UNION {handleServiceEvent(k) :
                   k \in {s \in Svcs : svcs[s].exists /\ pod.labeled}}

\* handleEndpointEvent (controller.go:312-323)
handleEndpointEvent(k, svcs) ==
    IF svcs[k].exists THEN handleServiceEvent(k) ELSE {}

\* the UpdateFunc of the Service informer (controller.go:108-112)
serviceUpdateFunc(k, old, updated) ==
    IF objectChanged(old, updated) \/ networkAnnotationsChanged(old, updated)
    THEN handleServiceEvent(k) ELSE {}

\* the UpdateFunc of the Pod informer (controller.go:119-123)
podUpdateFunc(old, updated, svcs) ==
    IF objectChanged(old, updated) THEN handlePodEvent(updated, svcs) ELSE {}

\* the UpdateFunc of the Endpoints informer without the filter
endpointUpdateFuncUnfiltered(k, old, updated, svcs) == handleEndpointEvent(k, svcs)

\* the UpdateFunc of the Endpoints informer (controller.go:97-101)
endpointUpdateFunc(k, old, updated, svcs) ==
    IF objectChanged(old, updated) THEN handleEndpointEvent(k, svcs) ELSE {}
(***************************************************************************)
(* The informers: initial list, watch notifications and periodic resync.   *)
(* An informer stores the object in its cache and calls the handler.       *)
(***************************************************************************)
Informing == Alive /\ ~stopCh

\* the keys the AddFuncs enqueue for the objects of an initial list
listedPodKeys(pods, svcs) ==
    UNION {handlePodEvent(pods[p], svcs) : p \in {q \in Pods : pods[q].exists}}
listedEpKeys(eps, svcs) ==
    UNION {handleEndpointEvent(k, svcs) : k \in {s \in Svcs : eps[s].exists}}
listedSvcKeys(svcs) ==
    UNION {handleServiceEvent(k) : k \in {s \in Svcs : svcs[s].exists}}

ListServices ==
    /\ Informing /\ "svc" \notin synced
    /\ cSvc' = apiSvc
    /\ synced' = synced \cup {"svc"}
    /\ AddRateLimited(listedSvcKeys(apiSvc))
    /\ UNCHANGED <<apiVars, cPod, cEp, stopCh, mainPc, queue, dirty, processing,
                   shuttingDown, wpc, w, last, budget, apiErr, nad, pcall>>

ListPods ==
    /\ Informing /\ "pod" \notin synced
    /\ cPod' = apiPod
    /\ synced' = synced \cup {"pod"}
    /\ RateLimited([k \in Svcs |->
                       Cardinality({p \in Pods : apiPod[p].exists /\
                                       k \in handlePodEvent(apiPod[p], cSvc)})])
    /\ UNCHANGED <<apiVars, cSvc, cEp, stopCh, mainPc, queue, dirty, processing,
                   shuttingDown, wpc, w, last, budget, apiErr, nad, pcall>>

ListEndpoints ==
    /\ Informing /\ "ep" \notin synced
    /\ cEp' = apiEp
    /\ synced' = synced \cup {"ep"}
    /\ AddRateLimited(listedEpKeys(apiEp, cSvc))
    /\ UNCHANGED <<apiVars, cSvc, cPod, stopCh, mainPc, queue, dirty, processing,
                   shuttingDown, wpc, w, last, budget, apiErr, nad, pcall>>

\* the net-attach-def informer has no AddFunc (controller.go:90-92)
ListNetAttachDefs ==
    /\ Informing /\ "nad" \notin synced
    /\ synced' = synced \cup {"nad"}
    /\ UNCHANGED <<apiVars, cacheVars, stopCh, mainPc, queueVars, wpc, w, last,
                   budget, apiErr, nad, pcall>>

\* a watch notification for an object that differs from its cached copy
Differs(cached, live) == cached.exists # live.exists \/ cached.rv # live.rv

\* the payloads a notification can carry: the object, and for a deletion
\* also the tombstone
Payloads(cached, live) ==
    IF cached.exists /\ ~live.exists THEN {"object", Tombstone} ELSE {"object"}

ServiceNotify(k) ==
    /\ Informing /\ "svc" \in synced
    /\ Differs(cSvc[k], apiSvc[k])
    /\ cSvc' = [cSvc EXCEPT ![k] = apiSvc[k]]
    /\ \E payload \in Payloads(cSvc[k], apiSvc[k]) :
          AddRateLimited(IF cSvc[k].exists /\ apiSvc[k].exists
                         THEN serviceUpdateFunc(k, cSvc[k], apiSvc[k])
                         ELSE IF payload = Tombstone
                         THEN handleServiceEvent(Tombstone)
                         ELSE handleServiceEvent(k))
    /\ UNCHANGED <<apiVars, cPod, cEp, lifeVars, queue, dirty, processing,
                   shuttingDown, wpc, w, last, budget, apiErr, nad, pcall>>

PodNotify(p) ==
    /\ Informing /\ "pod" \in synced
    /\ Differs(cPod[p], apiPod[p])
    /\ cPod' = [cPod EXCEPT ![p] = apiPod[p]]
    /\ \E payload \in Payloads(cPod[p], apiPod[p]) :
          AddRateLimited(IF cPod[p].exists /\ apiPod[p].exists
                         THEN podUpdateFunc(cPod[p], apiPod[p], cSvc)
                         ELSE IF apiPod[p].exists
                         THEN handlePodEvent(apiPod[p], cSvc)
                         ELSE IF payload = Tombstone
                         THEN handlePodEvent(NoPod, cSvc)
                         ELSE handlePodEvent(cPod[p], cSvc))
    /\ UNCHANGED <<apiVars, cSvc, cEp, lifeVars, queue, dirty, processing,
                   shuttingDown, wpc, w, last, budget, apiErr, nad, pcall>>

EndpointsNotify(k) ==
    /\ Informing /\ "ep" \in synced
    /\ Differs(cEp[k], apiEp[k])
    /\ cEp' = [cEp EXCEPT ![k] = apiEp[k]]
    /\ \E payload \in Payloads(cEp[k], apiEp[k]) :
          IF payload = Tombstone
          THEN \* obj.(*corev1.Endpoints) panics (controller.go:313)
               /\ mainPc' = "crashed"
               /\ UNCHANGED <<waiting, limiter>>
          ELSE /\ mainPc' = mainPc
               /\ AddRateLimited(IF cEp[k].exists /\ apiEp[k].exists
                                 THEN endpointUpdateFunc(k, cEp[k], apiEp[k], cSvc)
                                 ELSE handleEndpointEvent(k, cSvc))
    /\ UNCHANGED <<apiVars, cSvc, cPod, synced, stopCh, queue, dirty, processing,
                   shuttingDown, wpc, w, last, budget, apiErr, nad, pcall>>

\* the resync of syncPeriod (main.go:25,59-60): every cached object is
\* handed to the UpdateFunc as both the old and the new object
resyncKeys(kind) ==
    IF kind = "svc"
    THEN UNION {serviceUpdateFunc(k, cSvc[k], cSvc[k]) :
                   k \in {s \in Svcs : cSvc[s].exists}}
    ELSE IF kind = "pod"
    THEN UNION {podUpdateFunc(cPod[p], cPod[p], cSvc) :
                   p \in {q \in Pods : cPod[q].exists}}
    ELSE IF kind = "ep"
    THEN UNION {endpointUpdateFunc(k, cEp[k], cEp[k], cSvc) :
                   k \in {s \in Svcs : cEp[s].exists}}
    ELSE {}

Resync(kind) ==
    /\ Informing /\ kind \in synced
    /\ AddRateLimited(resyncKeys(kind))
    /\ UNCHANGED <<apiVars, cacheVars, lifeVars, queue, dirty, processing,
                   shuttingDown, wpc, w, last, budget, apiErr, nad, pcall>>
(***************************************************************************)
(* controller.go: the worker (worker, processNextWorkItem, sync).          *)
(***************************************************************************)
\* go wait.Until(c.worker, time.Second, stopChan) (controller.go:380): the
\* goroutine runs the worker unless stopChan is closed already
WorkerStart ==
    /\ Alive /\ wpc = "off" /\ mainPc \in {"running", "returned"}
    /\ wpc' = IF stopCh THEN "quit" ELSE "idle"
    /\ UNCHANGED <<apiVars, cacheVars, lifeVars, queueVars, w, last, budget, apiErr, nad, pcall>>

\* processNextWorkItem calling Done at once instead of deferring it
WorkerGetDoneEarly ==
    /\ Alive /\ wpc = "idle" /\ queue # <<>>
    /\ queue' = Tail(queue)
    /\ dirty' = dirty \ {Head(queue)}
    /\ w' = [NoSync EXCEPT !.key = Head(queue)]
    /\ wpc' = "sync"
    /\ UNCHANGED <<apiVars, cacheVars, lifeVars, waiting, limiter, processing, shuttingDown,
                   last, budget, apiErr, nad, pcall>>

\* workqueue.Get (controller.go:136): the first key of the queue
WorkerGet ==
    /\ Alive /\ wpc = "idle" /\ queue # <<>>
    /\ LET k == Head(queue)
       IN  /\ queue' = Tail(queue)
           /\ processing' = processing \cup {k}
           /\ dirty' = dirty \ {k}
           /\ w' = [NoSync EXCEPT !.key = k]
    /\ wpc' = "sync"
    /\ UNCHANGED <<apiVars, cacheVars, lifeVars, waiting, limiter, shuttingDown, last,
                   budget, apiErr, nad, pcall>>

\* Get reports shutdown (controller.go:137-139) and wait.Until sees the
\* closed stopChan
WorkerQuit ==
    /\ Alive /\ wpc = "idle" /\ queue = <<>> /\ shuttingDown
    /\ wpc' = "quit"
    /\ UNCHANGED <<apiVars, cacheVars, lifeVars, queueVars, w, last, budget, apiErr, nad, pcall>>

\* sync recording a Warning event on every path that returns an error
SyncAbortWarning(warn) ==
    /\ w' = [w EXCEPT !.err = TRUE, !.warn = @ + 1,
                      !.snap = Snapshot(w.key, cSvc, cPod)]
    /\ wpc' = "done"
    /\ UNCHANGED <<apiVars, cacheVars, lifeVars, queueVars, last, budget, apiErr, nad, pcall>>

\* sync returns an error before the update call; warn is the number of
\* Warning events it emitted
SyncAbort(warn) ==
    /\ w' = [w EXCEPT !.err = TRUE, !.warn = @ + warn,
                      !.snap = Snapshot(w.key, cSvc, cPod)]
    /\ wpc' = "done"
    /\ UNCHANGED <<apiVars, cacheVars, lifeVars, queueVars, last, budget, apiErr, nad, pcall>>

\* sync up to the update call (controller.go:150-261).  The Endpoints
\* object is the cached one, and sync sets its fields in place.
Sync ==
    /\ Alive /\ wpc = "sync"
    /\ \E k \in {w.key} : \E pr \in {svcNetworks(cSvc[k])} :
           IF ~cSvc[k].exists \/ Len(getNetworkAnnotations(cSvc[k])) = 0 \/ pr.err
           THEN SyncAbort(0)
           ELSE IF pr.panic
           THEN /\ mainPc' = "crashed"
                /\ UNCHANGED <<apiVars, cacheVars, synced, stopCh, queueVars, wpc, w,
                               last, budget, apiErr, nad, pcall>>
           ELSE IF tooManyNetworks(pr.nets)
           THEN SyncAbort(1)
           ELSE IF ~cEp[k].exists
           THEN SyncAbort(0)
           ELSE \E ord \in Orders(matchingPods(cPod)) :
                \E ep \in {[cEp[k] EXCEPT
                               !.owner = k,
                               !.subsets = newSubsets(ord, cPod, pr.nets, cEp[k])]} :
                    /\ cEp' = [cEp EXCEPT ![k] = ep]
                    /\ w' = [w EXCEPT !.pend = ep,
                                      !.snap = Snapshot(k, cSvc, cPod),
                                      !.prev = cEp[k].subsets,
                                      !.prevOwner = cEp[k].owner]
                    /\ wpc' = "update"
                    /\ UNCHANGED <<apiVars, cSvc, cPod, lifeVars, queueVars,
                                   last, budget, apiErr, nad, pcall>>

Content(ep) == [subsets |-> ep.subsets, owner |-> ep.owner]

\* the update call is accepted (controller.go:264) and both Normal events
\* are recorded (controller.go:273-274).  The API server stores nothing
\* and keeps the resource version when the object is unchanged.
UpdateOK ==
    /\ Alive /\ wpc = "update"
    /\ LET k == w.key
       IN  /\ apiEp[k].exists /\ apiEp[k].rv = w.pend.rv
           /\ apiEp' = IF Content(apiEp[k]) = Content(w.pend)
                       THEN apiEp
                       ELSE [apiEp EXCEPT ![k] = [w.pend EXCEPT !.rv = @ + 1]]
    /\ w' = [w EXCEPT !.upd = @ + 1, !.normEp = @ + 1, !.normSvc = @ + 1]
    /\ wpc' = "done"
    /\ UNCHANGED <<apiSvc, apiPod, cacheVars, lifeVars, queueVars, last, budget,
                   apiErr, nad, pcall>>

\* the update call is refused: the Endpoints object is gone or its
\* resource version is not the one sent (controller.go:265-268)
UpdateConflict ==
    /\ Alive /\ wpc = "update"
    /\ ~apiEp[w.key].exists \/ apiEp[w.key].rv # w.pend.rv
    /\ w' = [w EXCEPT !.upd = @ + 1, !.err = TRUE]
    /\ wpc' = "done"
    /\ apiErr' = TRUE
    /\ UNCHANGED <<apiVars, cacheVars, lifeVars, queueVars, last, budget, nad, pcall>>

\* sync recording its Normal events before it looks at the error of the
\* update call
UpdateFailEvents ==
    /\ Alive /\ wpc = "update"
    /\ apiErr' = TRUE
    /\ w' = [w EXCEPT !.upd = @ + 1, !.err = TRUE, !.normEp = @ + 1,
                      !.normSvc = @ + 1]
    /\ wpc' = "done"
    /\ UNCHANGED <<apiVars, cacheVars, lifeVars, queueVars, last, budget, nad, pcall>>

\* the update call fails for another reason
UpdateFail ==
    /\ Alive /\ wpc = "update"
    /\ apiErr' = TRUE
    /\ w' = [w EXCEPT !.upd = @ + 1, !.err = TRUE]
    /\ wpc' = "done"
    /\ UNCHANGED <<apiVars, cacheVars, lifeVars, queueVars, last, budget, nad, pcall>>

\* processNextWorkItem adding the key of a failed sync to the queue again
WorkerDoneRequeue ==
    /\ Alive /\ wpc = "done"
    /\ processing' = processing \ {w.key}
    /\ queue' = IF w.key \in dirty THEN Append(queue, w.key) ELSE queue
    /\ waiting' = IF w.err THEN waiting \cup {w.key} ELSE waiting
    /\ last' = IF w.err THEN last
               ELSE [last EXCEPT ![w.key] = [valid |-> TRUE, snap |-> w.snap,
                                             content |-> Content(w.pend)]]
    /\ wpc' = "idle"
    /\ w' = NoSync
    /\ UNCHANGED <<apiVars, cacheVars, lifeVars, limiter, dirty, shuttingDown,
                   budget, apiErr, nad, pcall>>

\* defer c.workqueue.Done(key) (controller.go:140)
WorkerDone ==
    /\ Alive /\ wpc = "done"
    /\ LET k == w.key
       IN  /\ processing' = processing \ {k}
           /\ queue' = IF k \in dirty THEN Append(queue, k) ELSE queue
           /\ last' = IF w.err THEN last
                      ELSE [last EXCEPT ![k] = [valid |-> TRUE, snap |-> w.snap,
                                                content |-> Content(w.pend)]]
    /\ wpc' = "idle"
    /\ w' = NoSync
    /\ UNCHANGED <<apiVars, cacheVars, lifeVars, waiting, limiter, dirty, shuttingDown,
                   budget, apiErr, nad, pcall>>

(***************************************************************************)
(* controller.go Start and main.go: start-up and shutdown.                 *)
(***************************************************************************)
\* Start waiting for three caches, the Pod cache left out
WaitForThreeCaches == Kinds \ {"pod"} \subseteq synced

\* cache.WaitForCacheSync reports success (controller.go:376)
WaitForCacheSync == synced = Kinds

StartSynced ==
    /\ mainPc = "waitSync" /\ WaitForCacheSync
    /\ mainPc' = "running"
    /\ UNCHANGED <<apiVars, cacheVars, synced, stopCh, queueVars, wpc, w, last,
                   budget, apiErr, nad, pcall>>

\* WaitForCacheSync gives up on the closed stopChan and klog.Fatalf ends
\* the process (controller.go:376-378)
StartFatal ==
    /\ mainPc = "waitSync" /\ stopCh
    /\ mainPc' = "fatal"
    /\ UNCHANGED <<apiVars, cacheVars, synced, stopCh, queueVars, wpc, w, last,
                   budget, apiErr, nad, pcall>>

\* the interrupt signal closes stopChan (main.go:74-76); w.sig records
\* that it arrived during the sync in flight
Signal ==
    /\ Alive /\ ~stopCh
    /\ stopCh' = TRUE
    /\ w' = [w EXCEPT !.sig = wpc \in {"sync", "update"}]
    /\ UNCHANGED <<apiVars, cacheVars, synced, mainPc, queueVars, wpc, last,
                   budget, apiErr, nad, pcall>>

\* Start returns on the closed stopChan and its deferred
\* workqueue.ShutDown runs (controller.go:374,382-384)
StartReturn ==
    /\ mainPc = "running" /\ stopCh
    /\ mainPc' = "returned"
    /\ shuttingDown' = TRUE
    /\ UNCHANGED <<apiVars, cacheVars, synced, stopCh, waiting, limiter, queue, dirty,
                   processing, wpc, w, last, budget, apiErr, nad, pcall>>

\* main returns after Start (main.go:83-84): the process ends, whatever
\* its goroutines are doing
MainExit ==
    /\ mainPc = "returned"
    /\ mainPc' = "exited"
    /\ UNCHANGED <<apiVars, cacheVars, synced, stopCh, queueVars, wpc, w, last,
                   budget, apiErr, nad, pcall>>
(***************************************************************************)
(* The environment: users and other controllers change the cluster.        *)
(***************************************************************************)
EnvStep == Alive /\ budget > 0 /\ budget' = budget - 1

EnvServiceDelete(k) ==
    /\ EnvStep /\ apiSvc[k].exists
    /\ apiSvc' = [apiSvc EXCEPT ![k] = [NoSvc EXCEPT !.rv = apiSvc[k].rv + 1]]
    /\ UNCHANGED <<apiPod, apiEp, cacheVars, lifeVars, queueVars, wpc, w, last, apiErr, nad, pcall>>

EnvServiceCreate(k) ==
    /\ EnvStep /\ ~apiSvc[k].exists
    /\ \E sel \in {NoSel} \cup {[has |-> TRUE, val |-> v] : v \in SvcAnnValues} :
          apiSvc' = [apiSvc EXCEPT ![k] = [exists |-> TRUE, sel |-> sel,
                                           rv |-> apiSvc[k].rv + 1]]
    /\ UNCHANGED <<apiPod, apiEp, cacheVars, lifeVars, queueVars, wpc, w, last, apiErr, nad, pcall>>

\* an update of the Service: its annotation or another field
EnvServiceUpdate(k) ==
    /\ EnvStep /\ apiSvc[k].exists
    /\ \E sel \in {NoSel} \cup {[has |-> TRUE, val |-> v] : v \in SvcAnnValues} :
          apiSvc' = [apiSvc EXCEPT ![k].sel = sel, ![k].rv = @ + 1]
    /\ UNCHANGED <<apiPod, apiEp, cacheVars, lifeVars, queueVars, wpc, w, last, apiErr, nad, pcall>>

EnvPodDelete(p) ==
    /\ EnvStep /\ apiPod[p].exists
    /\ apiPod' = [apiPod EXCEPT ![p] = [NoPod EXCEPT !.rv = apiPod[p].rv + 1]]
    /\ UNCHANGED <<apiSvc, apiEp, cacheVars, lifeVars, queueVars, wpc, w, last, apiErr, nad, pcall>>

\* a Pod is created without its status, which the CNI layer adds later
EnvPodCreate(p) ==
    /\ EnvStep /\ ~apiPod[p].exists
    /\ \E lb \in BOOLEAN, hs \in BOOLEAN, pt \in PodPorts :
          apiPod' = [apiPod EXCEPT ![p] =
                        [exists |-> TRUE, labeled |-> lb, sel |-> PodSel(hs),
                         status |-> "missing", port |-> pt,
                         rv |-> apiPod[p].rv + 1]]
    /\ UNCHANGED <<apiSvc, apiEp, cacheVars, lifeVars, queueVars, wpc, w, last, apiErr, nad, pcall>>

\* an update of the Pod: its labels, its annotations or another field
EnvPodUpdate(p) ==
    /\ EnvStep /\ apiPod[p].exists
    /\ \E lb \in BOOLEAN, hs \in BOOLEAN, st \in StatusKinds :
          /\ Cardinality({f \in {"labeled", "sel", "status"} :
                             [labeled |-> lb, sel |-> PodSel(hs), status |-> st][f]
                                 # apiPod[p][f]}) <= 1
          /\ apiPod' = [apiPod EXCEPT ![p].labeled = lb, ![p].sel = PodSel(hs),
                                      ![p].status = st, ![p].rv = @ + 1]
    /\ UNCHANGED <<apiSvc, apiEp, cacheVars, lifeVars, queueVars, wpc, w, last, apiErr, nad, pcall>>

EnvEndpointsDelete(k) ==
    /\ EnvStep /\ apiEp[k].exists
    /\ apiEp' = [apiEp EXCEPT ![k] = [NoEp EXCEPT !.rv = apiEp[k].rv + 1]]
    /\ UNCHANGED <<apiSvc, apiPod, cacheVars, lifeVars, queueVars, wpc, w, last, apiErr, nad, pcall>>

\* the platform's endpoints controller creates the Endpoints object of a
\* Service or writes its own addresses into it
EnvEndpointsWrite(k) ==
    /\ EnvStep
    /\ \E subs \in {{}, PrimarySubsets} :
          /\ ~apiEp[k].exists \/ apiEp[k].subsets # subs
          /\ apiEp' = [apiEp EXCEPT ![k] =
                          [exists |-> TRUE, subsets |-> subs,
                           owner |-> IF apiEp[k].exists THEN apiEp[k].owner ELSE NoOwner,
                           rv |-> apiEp[k].rv + 1]]
    /\ UNCHANGED <<apiSvc, apiPod, cacheVars, lifeVars, queueVars, wpc, w, last, apiErr, nad, pcall>>

(***************************************************************************)
(* controller.go: handleNetAttachDefDeleteEvent, the recovery of a deleted *)
(* net-attach-def that a Pod still uses.  The model has one net-attach-def *)
(* D, named a in the namespace of the Pods.                                *)
(***************************************************************************)
NadName == <<"a">>
NadObject(rv) == [name |-> NadName, namespace |-> SvcNamespace,
                  spec |-> "bridge", rv |-> rv]

\* values of the k8s.v1.cni.cncf.io/networks annotation of a Pod
AnnAA    == <<"a", ",", "a">>
AnnNsA   == <<"n", "/", "a">>
AnnB     == <<"b">>
AnnOther == <<"m", "/", "a">>
AnnJsonA == <<"[", "{", Quote, "n", "a", "m", "e", Quote, ":", Quote, "a", Quote,
              "}", "]">>
AnnNull  == <<"[", "n", "u", "l", "l", "]">>
PodAnnValues == {AnnA, AnnAA, AnnNsA, AnnB, AnnOther, AnnJsonA, AnnNull, AnnBad}

\* the test of controller.go:345
usesNetAttachDef(net, namespace, name) ==
    net.Namespace = namespace /\ net.Name = name

\* what the loops over one listed Pod meet (controller.go:336-366): one
\* "match" for every element that names the deleted object, or the "panic"
\* of parsePodNetworkSelections
podItems(pod, namespace, name) ==
    IF ~pod.sel.has THEN <<>>
    ELSE Eval(parsePodNetworkSelections(pod.sel.val, SvcNamespace), LAMBDA pr :
             IF pr.err THEN <<>>
             ELSE IF pr.panic THEN <<"panic">>
             ELSE SelectSeq([i \in 1..Len(pr.nets) |->
                                IF usesNetAttachDef(pr.nets[i], namespace, name)
                                THEN "match" ELSE "skip"],
                            LAMBDA x : x = "match"))

\* the same for the listed Pods in their order (controller.go:333-335)
RECURSIVE scanItems(_, _, _, _)
scanItems(ord, pods, namespace, name) ==
    IF ord = <<>> THEN <<>>
    ELSE Eval(podItems(pods[ord[1]], namespace, name), LAMBDA its :
             its \o scanItems(Tail(ord), pods, namespace, name))

\* the object of the create call (controller.go:353-354): a copy of the
\* deleted object, its resource version cleared
recovered(obj) == [obj EXCEPT !.rv = 0]

NoNad == [live |-> FALSE, liveRv |-> 0, cached |-> FALSE, obj |-> NadObject(0),
          pc |-> "idle", todo |-> <<>>, gets |-> <<>>, creates |-> <<>>,
          listed |-> {}, deletes |-> 0, orderly |-> FALSE]

NadVarsUnchanged ==
    UNCHANGED <<apiSvc, apiEp, cSvc, cEp, lifeVars, queueVars, wpc, w, last, apiErr,
                pcall>>

\* the informer stores a net-attach-def that was created; there is no
\* AddFunc (controller.go:90-92)
NadAddNotify ==
    /\ Informing /\ "nad" \in synced
    /\ nad.pc = "idle" /\ nad.live /\ ~nad.cached
    /\ nad' = [nad EXCEPT !.cached = TRUE, !.obj = NadObject(nad.liveRv)]
    /\ NadVarsUnchanged /\ UNCHANGED <<apiPod, cPod, budget>>

\* the informer stores a net-attach-def that was updated; there is no
\* UpdateFunc (controller.go:90-92)
NadUpdateNotify ==
    /\ Informing /\ "nad" \in synced
    /\ nad.pc = "idle" /\ nad.live /\ nad.cached /\ nad.obj.rv # nad.liveRv
    /\ nad' = [nad EXCEPT !.obj = NadObject(nad.liveRv)]
    /\ NadVarsUnchanged /\ UNCHANGED <<apiPod, cPod, budget>>

\* the delete handler putting the key of the deleted object on the work
\* queue for the worker to recover it
NadDeleteNotifyQueued ==
    /\ Informing /\ "nad" \in synced
    /\ nad.pc = "idle" /\ ~nad.live /\ nad.cached
    /\ nad' = [nad EXCEPT !.cached = FALSE, !.todo = <<>>, !.listed = {},
                          !.gets = <<>>, !.creates = <<>>]
    /\ AddRateLimited(Svcs)
    /\ UNCHANGED <<apiVars, cacheVars, lifeVars, queue, dirty, processing,
                   shuttingDown, wpc, w, last, budget, apiErr, pcall>>

\* the delete notification: handleNetAttachDefDeleteEvent starts and
\* lists the Pod cache (controller.go:325-333); a tombstone is no
\* metav1.Object and the handler returns at once (controller.go:327-328)
NadDeleteNotify ==
    /\ Informing /\ "nad" \in synced
    /\ nad.pc = "idle" /\ ~nad.live /\ nad.cached
    /\ \E payload \in {"object", Tombstone} :
          IF payload = Tombstone
          THEN nad' = [nad EXCEPT !.cached = FALSE, !.todo = <<>>, !.listed = {},
                                  !.gets = <<>>, !.creates = <<>>]
          ELSE \E ord \in Orders({p \in Pods : cPod[p].exists}) :
                  nad' = [nad EXCEPT !.cached = FALSE,
                                     !.pc = "scan",
                                     !.todo = scanItems(ord, cPod, nad.obj.namespace,
                                                        nad.obj.name),
                                     !.listed = {p \in Pods : cPod[p].exists /\
                                                    podItems(cPod[p], nad.obj.namespace,
                                                             nad.obj.name) # <<>>},
                                     !.gets = <<>>,
                                     !.creates = <<>>]
    /\ NadVarsUnchanged /\ UNCHANGED <<apiPod, cPod, budget>>

\* the recheck against the live API (controller.go:348-351): a nil error
\* lets the loops go on, any error leads to the create call
NadGet ==
    /\ Alive /\ nad.pc = "scan" /\ nad.todo # <<>> /\ Head(nad.todo) = "match"
    /\ \E out \in {IF nad.live THEN "present" ELSE "notfound", "error"} :
           nad' = [nad EXCEPT !.gets = Append(@, [out |-> out, live |-> nad.live]),
                              !.todo = IF out = "present" THEN Tail(@) ELSE @,
                              !.pc = IF out = "present" THEN "scan" ELSE "create"]
    /\ NadVarsUnchanged /\ UNCHANGED <<apiPod, cPod, budget>>

\* the handler going on after its create call
NadCreateAndGoOn ==
    /\ Alive /\ nad.pc = "create"
    /\ \E ok \in {~nad.live, FALSE} :
           nad' = [nad EXCEPT !.creates = Append(@, recovered(nad.obj)),
                              !.live = IF ok THEN TRUE ELSE @,
                              !.liveRv = IF ok THEN @ + 1 ELSE @,
                              !.todo = Tail(@),
                              !.pc = "scan"]
    /\ NadVarsUnchanged /\ UNCHANGED <<apiPod, cPod, budget>>

\* the create call (controller.go:353-363): it stores the object unless
\* one exists or the call fails, and the handler returns
NadCreate ==
    /\ Alive /\ nad.pc = "create"
    /\ \E ok \in {~nad.live, FALSE} :
           nad' = [nad EXCEPT !.creates = Append(@, recovered(nad.obj)),
                              !.live = IF ok THEN TRUE ELSE @,
                              !.liveRv = IF ok THEN @ + 1 ELSE @,
                              !.todo = <<>>,
                              !.pc = "idle"]
    /\ NadVarsUnchanged /\ UNCHANGED <<apiPod, cPod, budget>>

\* the loops end without a create call (controller.go:367-369)
NadReturn ==
    /\ Alive /\ nad.pc = "scan" /\ nad.todo = <<>>
    /\ nad' = [nad EXCEPT !.pc = "idle"]
    /\ NadVarsUnchanged /\ UNCHANGED <<apiPod, cPod, budget>>

\* parsePodNetworkSelections dereferences a nil element (utils.go:81) and
\* the process ends
NadPanic ==
    /\ Alive /\ nad.pc = "scan" /\ nad.todo # <<>> /\ Head(nad.todo) = "panic"
    /\ mainPc' = "crashed"
    /\ UNCHANGED <<apiVars, cacheVars, synced, stopCh, queueVars, wpc, w, last,
                   budget, apiErr, nad, pcall>>

\* the Pods of the cluster whose annotation names D
referencing(pods) ==
    {p \in Pods : pods[p].exists /\ pods[p].sel.has /\
        \E pr \in {parsePodNetworkSelections(pods[p].sel.val, SvcNamespace)} :
            ~pr.err /\ ~pr.panic /\
            \E i \in 1..Len(pr.nets) :
                pr.nets[i].Namespace = SvcNamespace /\ pr.nets[i].Name = NadName}

\* a user deletes D; orderly records that no Pod of the cluster names it
EnvNadDelete ==
    /\ Alive /\ nad.live /\ nad.deletes < MaxNadDeletes
    /\ nad' = [nad EXCEPT !.live = FALSE, !.liveRv = @ + 1, !.deletes = @ + 1,
                          !.orderly = referencing(apiPod) = {}]
    /\ NadVarsUnchanged /\ UNCHANGED <<apiPod, cPod, budget>>

\* a user updates D
EnvNadUpdate ==
    /\ EnvStep /\ nad.live
    /\ nad' = [nad EXCEPT !.liveRv = @ + 1]
    /\ NadVarsUnchanged /\ UNCHANGED <<apiPod, cPod>>

\* a user creates D again
EnvNadCreate ==
    /\ EnvStep /\ ~nad.live
    /\ nad' = [nad EXCEPT !.live = TRUE, !.liveRv = @ + 1, !.orderly = FALSE]
    /\ NadVarsUnchanged /\ UNCHANGED <<apiPod, cPod>>

(***************************************************************************)
(* A cluster that holds a Service selecting network a, its Endpoints as    *)
(* the platform wrote them, and two Pods behind the Service.               *)
(***************************************************************************)
InitPod(pt) == [exists |-> TRUE, labeled |-> TRUE, sel |-> PodSel(TRUE),
                status |-> "ok", port |-> pt, rv |-> 1]
InitSvc == [exists |-> TRUE, sel |-> [has |-> TRUE, val |-> AnnA], rv |-> 1]
InitEp  == [exists |-> TRUE, subsets |-> PrimarySubsets, owner |-> NoOwner, rv |-> 1]

\* the clusters the controller is started in: the full cluster with the
\* second Pod on the same port, on another or on both, the cluster before the
\* platform has created the Endpoints and the second Pod, and the cluster
\* before the Service and the Pods are created
InitCluster ==
    \/ /\ apiSvc = [k \in Svcs |-> InitSvc]
       /\ apiEp = [k \in Svcs |-> InitEp]
       /\ \E pt \in PodPorts \ {{}} :
             apiPod = [p \in Pods |-> IF p = "p1" THEN InitPod({80}) ELSE InitPod(pt)]
    \/ /\ apiSvc = [k \in Svcs |-> InitSvc]
       /\ apiEp = [k \in Svcs |-> NoEp]
       /\ apiPod = [p \in Pods |-> IF p = "p1" THEN InitPod({80}) ELSE NoPod]
    \/ /\ apiSvc = [k \in Svcs |-> NoSvc]
       /\ apiEp = [k \in Svcs |-> InitEp]
       /\ apiPod = [p \in Pods |-> NoPod]

InitQueue ==
    /\ queue = <<>>
    /\ dirty = {}
    /\ processing = {}
    /\ shuttingDown = FALSE
    /\ w = NoSync
    /\ last = [k \in Svcs |-> [valid |-> FALSE, snap |-> NoSnap,
                               content |-> Content(NoEp)]]

\* the controller after NewNetworkController: nothing listed, Start not
\* yet past WaitForCacheSync
InitLife ==
    /\ apiSvc = [k \in Svcs |-> InitSvc]
    /\ apiEp = [k \in Svcs |-> InitEp]
    /\ apiPod = [p \in Pods |-> InitPod({80})]
    /\ InitQueue
    /\ cSvc = [k \in Svcs |-> NoSvc]
    /\ cPod = [p \in Pods |-> NoPod]
    /\ cEp = [k \in Svcs |-> NoEp]
    /\ synced = {}
    /\ stopCh = FALSE
    /\ mainPc = "waitSync"
    /\ waiting = {}
    /\ limiter = [k \in Svcs |-> 0]
    /\ wpc = "off"
    /\ budget = MaxEnv
    /\ apiErr = FALSE
    /\ nad = NoNad
    /\ pcall = NoCall

\* the calls of AddRateLimited for key k by the AddFuncs of the initial
\* lists, the Services listed first (controller.go:96,107,118)
startupCalls(k) ==
    Cardinality({x \in {"svc", "ep"} \cup Pods :
                    \/ x = "svc" /\ k \in listedSvcKeys(apiSvc)
                    \/ x = "ep" /\ k \in listedEpKeys(apiEp, apiSvc)
                    \/ x \in Pods /\ apiPod[x].exists
                                  /\ k \in handlePodEvent(apiPod[x], apiSvc)})

\* the controller once Start has launched the worker: the caches hold the
\* initial lists and the AddFuncs have enqueued the Services
Init ==
    /\ InitCluster
    /\ InitQueue
    /\ cSvc = apiSvc
    /\ cPod = apiPod
    /\ cEp = apiEp
    /\ synced = Kinds
    /\ stopCh = FALSE
    /\ mainPc = "running"
    /\ waiting = listedSvcKeys(apiSvc)
    /\ limiter = [k \in Svcs |-> IF startupCalls(k) > MaxWhen THEN MaxWhen
                                  ELSE startupCalls(k)]
    /\ wpc = "idle"
    /\ budget = MaxEnv
    /\ apiErr = FALSE
    /\ nad = NoNad
    /\ pcall = NoCall

Informers ==
    \/ \E k \in Svcs : ServiceNotify(k) \/ EndpointsNotify(k)
    \/ \E p \in Pods : PodNotify(p)
    \/ \E kind \in Kinds : Resync(kind)

Lists == ListServices \/ ListPods \/ ListEndpoints \/ ListNetAttachDefs

Worker ==
    \/ \E k \in Svcs : DelayElapsed(k)
    \/ WorkerGet \/ Sync \/ UpdateOK \/ UpdateConflict \/ WorkerDone

Lifecycle ==
    \/ StartSynced \/ StartFatal \/ Signal \/ StartReturn \/ MainExit
    \/ WorkerStart \/ WorkerQuit

Environment ==
    \/ \E k \in Svcs : EnvServiceDelete(k) \/ EnvServiceCreate(k) \/ EnvServiceUpdate(k)
    \/ \E p \in Pods : EnvPodDelete(p) \/ EnvPodCreate(p) \/ EnvPodUpdate(p)
    \/ \E k \in Svcs : EnvEndpointsDelete(k) \/ EnvEndpointsWrite(k)

\* the running controller in a changing cluster
Next == Informers \/ Worker \/ UpdateFail \/ Environment

Spec == Init /\ [][Next]_vars

\* the same with the informers delivering every notification, the delay
\* of every enqueued key elapsing and the worker goroutine running on
Fairness ==
    /\ \A k \in Svcs : WF_vars(ServiceNotify(k))
    /\ \A k \in Svcs : WF_vars(EndpointsNotify(k))
    /\ \A p \in Pods : WF_vars(PodNotify(p))
    /\ \A k \in Svcs : WF_vars(DelayElapsed(k))
    /\ WF_vars(WorkerGet \/ Sync \/ UpdateOK \/ UpdateConflict \/ WorkerDone)

FairSpec == Init /\ [][Next]_vars /\ Fairness

\* the controller from its construction to the end of the process, in a
\* cluster whose Service and Pods are updated
NextLife ==
    \/ Lists \/ Lifecycle \/ Informers \/ Worker \/ UpdateFail
    \/ \E k \in Svcs : EnvServiceUpdate(k)
    \/ \E p \in Pods : EnvPodUpdate(p)

SpecLife == InitLife /\ [][NextLife]_vars

\* the running controller in a cluster without Services: D exists and is
\* cached, the Pods name it or not
InitNAD ==
    /\ apiSvc = [k \in Svcs |-> NoSvc]
    /\ apiEp = [k \in Svcs |-> NoEp]
    /\ apiPod \in [Pods -> {NoPod} \cup
                     {[InitPod({80}) EXCEPT !.labeled = FALSE,
                                          !.sel = [has |-> TRUE, val |-> v]] :
                         v \in PodAnnValues}]
    /\ InitQueue
    /\ cSvc = apiSvc /\ cPod = apiPod /\ cEp = apiEp
    /\ synced = Kinds
    /\ stopCh = FALSE
    /\ mainPc = "running"
    /\ waiting = {}
    /\ limiter = [k \in Svcs |-> 0]
    /\ wpc = "idle"
    /\ budget = MaxEnv
    /\ apiErr = FALSE
    /\ nad = [NoNad EXCEPT !.live = TRUE, !.liveRv = 1, !.cached = TRUE,
                           !.obj = NadObject(1)]
    /\ pcall = NoCall

NextNAD ==
    \/ NadAddNotify \/ NadUpdateNotify \/ NadDeleteNotify
    \/ NadGet \/ NadCreate \/ NadReturn \/ NadPanic
    \/ EnvNadDelete \/ EnvNadCreate \/ EnvNadUpdate
    \/ \E p \in Pods : EnvPodDelete(p) \/ PodNotify(p)

SpecNAD == InitNAD /\ [][NextNAD]_vars

\* the controller after NewNetworkController and the start of the informer
\* factories (main.go:81-82), in the cluster of InitNAD: D exists, nothing
\* is listed yet
InitNADStart ==
    /\ apiSvc = [k \in Svcs |-> NoSvc]
    /\ apiEp = [k \in Svcs |-> NoEp]
    /\ apiPod \in [Pods -> {NoPod} \cup
                     {[InitPod({80}) EXCEPT !.labeled = FALSE,
                                            !.sel = [has |-> TRUE, val |-> v]] :
                         v \in PodAnnValues}]
    /\ InitQueue
    /\ cSvc = [k \in Svcs |-> NoSvc]
    /\ cPod = [p \in Pods |-> NoPod]
    /\ cEp = [k \in Svcs |-> NoEp]
    /\ synced = {}
    /\ stopCh = FALSE
    /\ mainPc = "waitSync"
    /\ waiting = {}
    /\ limiter = [k \in Svcs |-> 0]
    /\ wpc = "off"
    /\ budget = MaxEnv
    /\ apiErr = FALSE
    /\ nad = [NoNad EXCEPT !.live = TRUE, !.liveRv = 1]
    /\ pcall = NoCall

\* the informers listing in any order while D is deleted
NextNADStart ==
    \/ Lists \/ StartSynced
    \/ NadAddNotify \/ NadDeleteNotify
    \/ NadGet \/ NadCreate \/ NadReturn \/ NadPanic
    \/ EnvNadDelete

SpecNADStart == InitNADStart /\ [][NextNADStart]_vars

(***************************************************************************)
(* The running controller with a Service whose annotation selects one      *)
(* network, by its bare name, with a namespace, or with an interface.      *)
(***************************************************************************)
AnnIf == <<"a", "@", "a">>
SelAnnValues == {AnnA, AnnNsA, AnnOther, AnnIf, AnnB}

\* the second Pod reports network a or network b
InitSel ==
    /\ \E v \in SelAnnValues :
          apiSvc = [k \in Svcs |-> [InitSvc EXCEPT !.sel.val = v]]
    /\ apiEp = [k \in Svcs |-> InitEp]
    /\ \E st \in {"ok", "other"} :
          apiPod = [p \in Pods |-> IF p = "p1" THEN InitPod({80})
                                   ELSE [InitPod({80}) EXCEPT !.status = st]]
    /\ InitQueue
    /\ cSvc = apiSvc
    /\ cPod = apiPod
    /\ cEp = apiEp
    /\ synced = Kinds
    /\ stopCh = FALSE
    /\ mainPc = "running"
    /\ waiting = listedSvcKeys(apiSvc)
    /\ limiter = [k \in Svcs |-> IF startupCalls(k) > MaxWhen THEN MaxWhen
                                  ELSE startupCalls(k)]
    /\ wpc = "idle"
    /\ budget = MaxEnv
    /\ apiErr = FALSE
    /\ nad = NoNad
    /\ pcall = NoCall

\* a user changes the selection of the Service
EnvServiceSelect(k) ==
    /\ EnvStep /\ apiSvc[k].exists
    /\ \E v \in SelAnnValues \ {apiSvc[k].sel.val} :
          apiSvc' = [apiSvc EXCEPT ![k].sel = [has |-> TRUE, val |-> v],
                                   ![k].rv = @ + 1]
    /\ UNCHANGED <<apiPod, apiEp, cacheVars, lifeVars, queueVars, wpc, w, last, apiErr, nad, pcall>>

NextSel ==
    \/ Informers \/ Worker \/ UpdateFail
    \/ \E k \in Svcs : EnvServiceSelect(k)
    \/ \E p \in Pods : EnvPodUpdate(p)

SpecSel == InitSel /\ [][NextSel]_vars

(***************************************************************************)
(* The parser called on its own: parsePodNetworkSelections applied to a    *)
(* text and a default namespace (utils.go:52), as sync calls it with the   *)
(* Service's annotation (controller.go:167) and the delete handler with a  *)
(* Pod's (controller.go:342).                                              *)
(***************************************************************************)
\* the longest text made of the characters of Alphabet
MaxLen == 3

\* a label character, a character the label pattern admits only inside,
\* the separators of the comma separated form, and white space
Alphabet == {"a", "-", "/", "@", ",", " "}

JsonNameA == <<Quote>> \o StrName \o <<Quote, ":", Quote, "a", Quote>>
JsonNameB == <<Quote>> \o StrName \o <<Quote, ":", Quote, "b", Quote>>
JsonNamespaceM == <<Quote>> \o StrNamespace \o <<Quote, ":", Quote, "m", Quote>>
JsonNamespaceNone == <<Quote>> \o StrNamespace \o <<Quote, ":", Quote, Quote>>

\* texts json.Unmarshal accepts, and an object that is not an array
JsonTexts ==
    {AnnEmpty, StrNull, AnnNull, AnnJsonA,
     <<"[", "{">> \o JsonNameA \o <<",">> \o JsonNamespaceM \o <<"}", "]">>,
     <<"[", "{">> \o JsonNameA \o <<",">> \o JsonNamespaceNone \o <<"}", "]">>,
     <<"[", "{">> \o JsonNameA \o <<"}", ",", "{">> \o JsonNameB \o <<",">>
         \o JsonNamespaceM \o <<"}", "]">>,
     <<"{">> \o JsonNameA \o <<"}">>}

\* the texts the parser is called with
ParseInputs == UNION {[1..n -> Alphabet] : n \in 0..MaxLen} \cup JsonTexts

\* the default namespaces the parser is called with
ParseNamespaces == {SvcNamespace}

\* a caller about to call the parser
InitParse ==
    /\ apiSvc = [k \in Svcs |-> NoSvc]
    /\ apiEp = [k \in Svcs |-> NoEp]
    /\ apiPod = [p \in Pods |-> NoPod]
    /\ InitQueue
    /\ cSvc = apiSvc /\ cPod = apiPod /\ cEp = apiEp
    /\ synced = Kinds
    /\ stopCh = FALSE
    /\ mainPc = "running"
    /\ waiting = {}
    /\ limiter = [k \in Svcs |-> 0]
    /\ wpc = "idle"
    /\ budget = MaxEnv
    /\ apiErr = FALSE
    /\ nad = NoNad
    /\ pcall \in {[NoCall EXCEPT !.podNetworks = s, !.defaultNamespace = ns] :
                     s \in ParseInputs, ns \in ParseNamespaces}

\* the call returns (or panics)
ParseCall ==
    /\ ~pcall.called
    /\ pcall' = [pcall EXCEPT
                    !.called = TRUE,
                    !.out = parsePodNetworkSelections(pcall.podNetworks,
                                                      pcall.defaultNamespace)]
    /\ UNCHANGED <<apiVars, cacheVars, lifeVars, queueVars, wpc, w, last, budget,
                   apiErr, nad>>

NextParse == ParseCall

SpecParse == InitParse /\ [][NextParse]_vars

(***************************************************************************)
(* Properties of sync.                                                     *)
(***************************************************************************)
\* a sync has returned or is at its update call
Synced == wpc \in {"update", "done"}

\* the Service a sync read selects more than one network
SelectsSeveral(svc) ==
    /\ svc.exists
    /\ \E pr \in {parsePodNetworkSelections(getNetworkAnnotations(svc), SvcNamespace)} :
           ~pr.err /\ ~pr.panic /\ Len(pr.nets) >= 2

\* C5: a sync of a Service whose annotation selects more than one network
\* never reaches the Endpoints update call, emits exactly one Warning event
\* and no Normal event, and returns an error
C5_SeveralNetworksAbort ==
    (Synced /\ SelectsSeveral(w.snap.svc)) =>
        /\ wpc = "done"
        /\ w.upd = 0
        /\ w.warn = 1
        /\ w.normSvc = 0 /\ w.normEp = 0
        /\ w.err

\* a sync of a Service selecting two networks has returned
C5_Witness ==
    /\ wpc = "done"
    /\ SelectsSeveral(w.snap.svc)
    /\ Len(svcNetworks(w.snap.svc).nets) = 2
    /\ cEp[w.key].exists

\* the subsets that follow from what a sync read: the selected addresses
\* of the matching Pods it listed, grouped by port
ComputedFrom(snap) ==
    {RepackSubsets(podSubsets(ord, snap.pods,
                              parsePodNetworkSelections(
                                  getNetworkAnnotations(snap.svc), SvcNamespace).nets)) :
        ord \in Orders(matchingPods(snap.pods))}

AddrsIn(subsets) == UNION {sub.addrs : sub \in subsets}

\* an address that the listed Pod of its target reference reports now
Recomputed(a, snap) ==
    /\ a.pod \in matchingPods(snap.pods)
    /\ a.rv = snap.pods[a.pod].rv
    /\ a.ip = IPOf[a.pod]
    /\ snap.pods[a.pod].status = "ok"

\* C6: the subsets a successful sync persists are a function of the cached
\* Service and the matching cached Pods only: nothing of the previous
\* subsets survives unless recomputed, and no matching Pod gives no subset
C6_WholesaleReplacement ==
    (Synced /\ ~w.err) =>
        /\ w.pend.subsets \in ComputedFrom(w.snap)
        /\ \A a \in AddrsIn(w.pend.subsets) : Recomputed(a, w.snap)
        /\ matchingPods(w.snap.pods) = {} => w.pend.subsets = {}

\* a sync of a Service without matching Pods has emptied subsets that held
\* an address
C6_Witness ==
    /\ wpc = "done" /\ ~w.err /\ w.upd = 1
    /\ matchingPods(w.snap.pods) = {}
    /\ w.prev # {}
    /\ w.pend.subsets = {}

\* C7: a successful sync that read the same Service and Pods as the last
\* successful sync of the key produces the same subsets and owner reference
C7_Idempotence ==
    \A k \in Svcs :
        (Synced /\ ~w.err /\ w.key = k /\ last[k].valid /\ last[k].snap = w.snap)
            => Content(w.pend) = last[k].content

\* a second sync of two Pods on different ports, nothing having changed
C7_Witness ==
    /\ wpc = "done" /\ ~w.err /\ w.upd = 1
    /\ last[w.key].valid /\ last[w.key].snap = w.snap
    /\ Cardinality(w.pend.subsets) = 2

(***************************************************************************)
(* Eventual consistency.                                                   *)
(***************************************************************************)
\* the Endpoints of every Service that selects one network hold what
\* follows from the Pods of the cluster that match the Service now
Consistent ==
    \A k \in Svcs :
        (/\ apiSvc[k].exists /\ apiEp[k].exists
         /\ \E pr \in {parsePodNetworkSelections(getNetworkAnnotations(apiSvc[k]),
                                                 SvcNamespace)} :
                ~pr.err /\ ~pr.panic /\ Len(pr.nets) = 1)
        => apiEp[k].subsets \in ComputedFrom(Snapshot(k, apiSvc, apiPod))

\* C1: when no API call of the controller fails, the Endpoints of every
\* Service selecting one network eventually hold the subsets of the Pods
\* matching the Service, and keep them, once the cluster stops changing
C1_EventualConsistency == ([]~apiErr) => <>[]Consistent

(***************************************************************************)
(* Properties of the recovery of a deleted net-attach-def.                 *)
(***************************************************************************)
Rechecks(out) == {i \in DOMAIN nad.gets : nad.gets[i].out = out}

\* C2: the handling of one delete notification issues at most one create
\* call; when a recheck has reported D absent the handler returns with
\* exactly one create call, for D's name, namespace and spec without a
\* resource version; when every recheck reported D present it issues none
C2_OneCreate ==
    /\ Len(nad.creates) <= 1
    /\ (nad.pc = "idle" /\ Rechecks("notfound") # {}) =>
           /\ Len(nad.creates) = 1
           /\ nad.creates[1] = [name |-> nad.obj.name,
                                namespace |-> nad.obj.namespace,
                                spec |-> nad.obj.spec, rv |-> 0]
    /\ Rechecks("present") = DOMAIN nad.gets => nad.creates = <<>>

\* the handler has returned after one create call, two cached Pods naming
\* D and one of them twice
C2_Witness ==
    /\ nad.pc = "idle" /\ Rechecks("notfound") # {}
    /\ Len(nad.creates) = 1 /\ nad.obj.rv > 0
    /\ nad.listed = Pods
    /\ \E p \in Pods : cPod[p].sel.val = AnnAA

\* C3: a create call is issued only after a recheck that reported D
\* absent while D was absent from the live API, and only for an object
\* that a listed Pod names
C3_CreateOnlyIfAbsent ==
    (nad.pc = "create" \/ nad.creates # <<>>) =>
        /\ nad.gets # <<>>
        /\ nad.gets[Len(nad.gets)].out = "notfound"
        /\ ~nad.gets[Len(nad.gets)].live
        /\ nad.listed # {}

\* C4: D stays removed once it is deleted while no Pod of the cluster
\* names it
C4_CleanupOrder ==
    nad.orderly => (~nad.live /\ nad.pc # "create")

(***************************************************************************)
(* Properties of start-up and shutdown.                                    *)
(***************************************************************************)
\* the worker goroutine has been launched: before that no sync has run
WorkerLaunched == wpc # "off"

\* C9: no sync starts before the four caches have reported their initial
\* list, and a process that ends because the caches did not sync has run
\* no sync
C9_SyncAfterCaches ==
    /\ WorkerLaunched => synced = Kinds
    /\ wpc \in {"sync", "update", "done"} => synced = Kinds
    /\ mainPc = "fatal" => ~WorkerLaunched

\* the first sync of the process is starting, its caches listed
C9_Witness ==
    /\ wpc = "sync" /\ synced = Kinds
    /\ \A k \in Svcs : ~last[k].valid

\* C10: a sync that was in flight when the shutdown signal arrived has
\* returned from its update call when the process ends
C10_GracefulShutdown ==
    (mainPc = "exited" /\ w.sig) => wpc \notin {"sync", "update"}

(***************************************************************************)
(* Properties of the work queue.                                           *)
(***************************************************************************)
InFlight(k) == wpc \in {"sync", "update", "done"} /\ w.key = k

\* C8: a key is in the work queue at most once however often it is
\* enqueued, and while its reconciliation is in flight it is held by the
\* queue as processing and is not handed out again
C8_OneInFlight ==
    /\ \A i, j \in DOMAIN queue : queue[i] = queue[j] => i = j
    /\ \A k \in Svcs : InFlight(k) => (k \in processing /\ k \notin Range(queue))
    /\ Cardinality(processing) <= 1

\* a notification has enqueued the key again while its sync is in flight
C8_Witness ==
    \E k \in Svcs : InFlight(k) /\ k \in dirty /\ k \in processing

(***************************************************************************)
(* Properties of the worker after a failed sync.                           *)
(***************************************************************************)
\* the worker returns from processNextWorkItem after a sync in error
FailedSyncDone == wpc = "done" /\ w.err /\ wpc' = "idle"

\* C11: after a failed sync the worker marks the key done and adds it to
\* neither the queue nor the delaying queue: the key is queued then only
\* if a notification enqueued it while the sync was in flight
C11_NoRequeueOnFailure ==
    [][FailedSyncDone =>
          /\ w.key \notin processing'
          /\ waiting' = waiting
          /\ dirty' = dirty
          /\ queue' = IF w.key \in dirty THEN Append(queue, w.key) ELSE queue]_vars

\* every sync so far has failed, the worker is idle and no key is pending
C11_Witness ==
    /\ wpc = "idle" /\ apiErr
    /\ \A k \in Svcs : ~last[k].valid /\ apiSvc[k].exists /\ apiEp[k].exists
    /\ queue = <<>> /\ waiting = {} /\ dirty = {} /\ processing = {}

(***************************************************************************)
(* Properties of the rate limiter.                                         *)
(***************************************************************************)
\* C12: the delay the rate limiter gives to an enqueue of a key is the
\* delay of the first enqueue of the key, whatever the number of enqueues
\* it has counted for the key
C12_BackoffInert ==
    [][\A k \in Svcs :
          limiter'[k] # limiter[k] => When(limiter[k]) = When(0)]_vars

(***************************************************************************)
(* Properties of the Endpoints cache.                                      *)
(***************************************************************************)
\* C13: when the update call of a sync has failed, the cached Endpoints
\* object the sync read, no notification having replaced it, holds the
\* subsets and the owner reference it held before the sync
C13_CacheUntouched ==
    \A k \in Svcs :
        (/\ wpc = "done" /\ w.key = k /\ w.err /\ w.upd = 1
         /\ cEp[k].exists /\ cEp[k].rv = w.pend.rv)
        => (cEp[k].subsets = w.prev /\ cEp[k].owner = w.prevOwner)

(***************************************************************************)
(* Properties of the parser.                                               *)
(***************************************************************************)
\* the occurrences of character c in str
Count(str, c) == Cardinality({i \in 1..Len(str) : str[i] = c})

\* str up to its first c (all of it without c), and str after its first c
Before(str, c) ==
    IF Count(str, c) = 0 THEN str
    ELSE SubSeq(str, 1, (CHOOSE i \in 1..Len(str) :
                            str[i] = c /\ \A j \in 1..(i - 1) : str[j] # c) - 1)
After(str, c) ==
    IF Count(str, c) = 0 THEN <<>>
    ELSE SubSeq(str, (CHOOSE i \in 1..Len(str) :
                         str[i] = c /\ \A j \in 1..(i - 1) : str[j] # c) + 1,
                Len(str))

\* namespace/name@interface: the components of a unit
UnitNamespace(u) == IF Count(u, "/") = 0 THEN <<>> ELSE Before(u, "/")
UnitRest(u)      == IF Count(u, "/") = 0 THEN u ELSE After(u, "/")
UnitName(u)      == Before(UnitRest(u), "@")
UnitInterface(u) == After(UnitRest(u), "@")

\* a unit the comma separated form does not admit
BadUnit(u) ==
    \/ Count(u, "/") > 1
    \/ Count(u, "@") > 1
    \/ \E c \in {UnitNamespace(u), UnitName(u), UnitInterface(u)} :
           c # <<>> /\ ~validNameRegex(c)

\* the trimmed units of a comma separated text
UnitsOf(str) == [i \in 1..Len(Split(str, ",")) |-> TrimSpace(Split(str, ",")[i])]

\* the call took the comma separated path
CommaPath == pcall.podNetworks # <<>> /\ jsonUnmarshal(pcall.podNetworks).err

\* C14: parsePodNetworkSelections returns an error and no element for the
\* empty text and, on the comma separated path, for every text one of
\* whose units has more than one '/', more than one '@', or a non-empty
\* namespace, name or interface that does not match the label pattern,
\* whatever the units before it are
C14_ParseErrors ==
    pcall.called =>
        /\ pcall.podNetworks = <<>> => pcall.out.err /\ pcall.out.nets = <<>>
        /\ (/\ CommaPath
            /\ \E i \in 1..Len(UnitsOf(pcall.podNetworks)) :
                   BadUnit(UnitsOf(pcall.podNetworks)[i]))
           => pcall.out.err /\ pcall.out.nets = <<>>

\* a list whose first unit is a name and whose second is not admitted was
\* parsed
C14_Witness ==
    /\ pcall.called /\ CommaPath
    /\ Len(UnitsOf(pcall.podNetworks)) = 2
    /\ UnitsOf(pcall.podNetworks)[1] = <<"a">>
    /\ BadUnit(UnitsOf(pcall.podNetworks)[2])
    /\ pcall.out.err

\* the namespaces the text of the call names, element by element: the
\* namespace members on the JSON path, the parts before '/' of the units
\* on the comma separated path; empty where none is named
ExplicitNamespaces ==
    IF CommaPath
    THEN [i \in 1..Len(UnitsOf(pcall.podNetworks)) |->
             UnitNamespace(UnitsOf(pcall.podNetworks)[i])]
    ELSE [i \in 1..Len(jsonUnmarshal(pcall.podNetworks).nets) |->
             jsonUnmarshal(pcall.podNetworks).nets[i].Namespace]

\* the call returned a list and no error
ParsedOK == pcall.called /\ ~pcall.out.err /\ ~pcall.out.panic

\* C15: after a successful call with a non-empty default namespace, on
\* the JSON path and on the comma separated path, every element has a
\* non-empty Namespace: the one the text names for it if it names a
\* non-empty one, the default namespace otherwise
C15_NamespaceFill ==
    (ParsedOK /\ pcall.defaultNamespace # <<>>) =>
        /\ Len(pcall.out.nets) = Len(ExplicitNamespaces)
        /\ \A i \in 1..Len(pcall.out.nets) :
               /\ pcall.out.nets[i].Namespace # <<>>
               /\ pcall.out.nets[i].Namespace =
                      IF ExplicitNamespaces[i] # <<>>
                      THEN ExplicitNamespaces[i]
                      ELSE pcall.defaultNamespace

\* a text naming a namespace other than the default for one element and
\* none for another was parsed
C15_Witness ==
    /\ ParsedOK /\ pcall.defaultNamespace # <<>>
    /\ \E i, j \in 1..Len(pcall.out.nets) :
           /\ ExplicitNamespaces[i] \notin {<<>>, pcall.defaultNamespace}
           /\ ExplicitNamespaces[j] = <<>>

(***************************************************************************)
(* Properties of the repack.                                               *)
(***************************************************************************)
\* a sync has persisted its Endpoints
Persisted == wpc = "done" /\ ~w.err /\ w.upd = 1

\* the addresses of Pod p among the persisted subsets
PodAddrs(p) == {a \in AddrsIn(w.pend.subsets) : a.pod = p}

\* the Pods whose per-Pod subset holds an address, and the port set of it
Contributing == {p \in Pods : PodAddrs(p) # {}}
PortSet(p) == w.snap.pods[p].port

\* some persisted subset holds addresses of both Pods
ShareSubset(p, q) ==
    \E sub \in w.pend.subsets :
        PodAddrs(p) \cap sub.addrs # {} /\ PodAddrs(q) \cap sub.addrs # {}

Enqueues(k) ==
    /\ k \in waiting'
    /\ limiter'[k] = IF limiter[k] = MaxWhen THEN MaxWhen ELSE limiter[k] + 1

\* the step calls AddRateLimited for no key
EnqueuesNothing == waiting' = waiting /\ limiter' = limiter

\* C17: a Service add notification and a Service delete notification
\* enqueue the Service's key; a Service update notification enqueues it if
\* and only if the resource version or the selection annotation of the old
\* and the new object differ
C17_ServiceNotifications ==
    [][\A k \in Svcs :
          cSvc'[k] # cSvc[k] =>
              IF cSvc[k].exists /\ cSvc'[k].exists
              THEN IF \/ cSvc[k].rv # cSvc'[k].rv
                      \/ getNetworkAnnotations(cSvc[k]) # getNetworkAnnotations(cSvc'[k])
                   THEN Enqueues(k)
                   ELSE EnqueuesNothing
              ELSE Enqueues(k)]_vars

\* the Pod a notification is about: the new object, and for a deletion the
\* object as it was last cached
NotifiedPod(p) == IF cPod'[p].exists THEN cPod'[p] ELSE cPod[p]

\* the cached Services whose selector matches the Pod
ServicesOf(pod) == {k \in Svcs : cSvc[k].exists /\ pod.labeled}

\* C18: a Pod add notification, a Pod delete notification and a Pod update
\* notification with a changed resource version enqueue the keys of all
\* cached Services whose selector matches the Pod if the Pod carries the
\* selection annotation, and nothing if it does not
C18_PodNotifications ==
    [][\A p \in Pods :
          cPod'[p] # cPod[p] =>
              IF NotifiedPod(p).sel.has
              THEN \A k \in Svcs :
                      IF k \in ServicesOf(NotifiedPod(p))
                      THEN Enqueues(k)
                      ELSE k \in waiting' <=> k \in waiting
              ELSE EnqueuesNothing]_vars

\* C19: an Endpoints add, update or delete notification enqueues the key of
\* the cached Service of the same namespace and name; without such a
\* Service it enqueues nothing, and in both cases the handler returns
C19_EndpointsNotifications ==
    [][\A k \in Svcs :
          (cEp'[k] # cEp[k] /\ wpc' = wpc) =>
              /\ mainPc' = mainPc
              /\ IF cSvc[k].exists THEN Enqueues(k) ELSE EnqueuesNothing]_vars

(***************************************************************************)
(* Properties of the net-attach-def notifications.                         *)
(***************************************************************************)
\* the informer stores D after an add or an update notification
NadStored == nad'.cached /\ (~nad.cached \/ nad'.obj # nad.obj)

\* a step of the delete notification: the handler is called, is running
\* or returns
NadHandling == nad.pc # "idle" \/ nad'.pc # "idle" \/ (nad.cached /\ ~nad'.cached)

\* C20: an add or update notification of a net-attach-def causes no API
\* call and no change of the work queue; the delete notification never
\* changes the work queue, and its create call is made by the handler
\* itself, which returns only after the call
C20_NadNotifications ==
    [][/\ NadStored =>
             /\ nad'.gets = nad.gets /\ nad'.creates = nad.creates
             /\ nad'.live = nad.live /\ nad'.liveRv = nad.liveRv
             /\ nad'.pc = "idle"
             /\ UNCHANGED <<apiVars, apiErr, queueVars>>
       /\ NadHandling => UNCHANGED queueVars
       /\ Len(nad'.creates) > Len(nad.creates) =>
             /\ nad.pc = "create"
             /\ nad'.creates = Append(nad.creates, recovered(nad.obj))
             /\ nad'.pc = "idle"]_vars

\* the delete handler has recreated D and returned, the informer has
\* stored the new object, and the work queue is as it was
C20_Witness ==
    /\ nad.pc = "idle" /\ Len(nad.creates) = 1
    /\ nad.live /\ nad.cached /\ nad.obj.rv = nad.liveRv
    /\ waiting = {} /\ queue = <<>> /\ dirty = {}
    /\ \A k \in Svcs : limiter[k] = 0

AbortReason(k) ==
    \/ ~cSvc[k].exists
    \/ getNetworkAnnotations(cSvc[k]) = <<>>
    \/ svcNetworks(cSvc[k]).err
    \/ /\ ~svcNetworks(cSvc[k]).panic
       /\ Len(svcNetworks(cSvc[k]).nets) <= 1
       /\ ~cEp[k].exists

\* C22: a sync that aborts because the Service is absent, its annotation
\* is absent, empty or unparsable, or its Endpoints object is absent makes
\* no update or create call and emits no event; the controller never
\* creates an Endpoints object
C22_AbortNoSideEffects ==
    [][/\ (wpc = "sync" /\ wpc' # wpc /\ AbortReason(w.key)) =>
             /\ wpc' = "done" /\ w'.err
             /\ w'.upd = 0 /\ w'.warn = 0 /\ w'.normSvc = 0 /\ w'.normEp = 0
             /\ UNCHANGED apiVars
       /\ \A k \in Svcs :
             (~apiEp[k].exists /\ apiEp'[k].exists) => budget' < budget]_vars

\* a sync of a Service with one selected network has aborted for want of
\* the Endpoints object, which is still missing
C22_Witness ==
    /\ wpc = "done" /\ w.err /\ w.upd = 0 /\ w.warn = 0
    /\ w.snap.svc.exists /\ ~svcNetworks(w.snap.svc).err
    /\ Len(svcNetworks(w.snap.svc).nets) = 1
    /\ ~cEp[w.key].exists /\ ~apiEp[w.key].exists

\* the matching Pods a sync listed whose status annotation is missing or
\* is not JSON
Undecodable(snap) ==
    {p \in matchingPods(snap.pods) : snap.pods[p].status \in {"bad", "missing"}}

\* what the sync read, without the Pods of set S
Without(snap, S) ==
    [snap EXCEPT !.pods = [p \in Pods |-> IF p \in S THEN NoPod ELSE snap.pods[p]]]

\* the caches let the sync of key k reach its update call
Proceeds(k) ==
    /\ ~AbortReason(k)
    /\ ~svcNetworks(cSvc[k]).panic
    /\ Len(svcNetworks(cSvc[k]).nets) = 1

\* C23: a matching Pod whose status annotation is missing or is not JSON
\* gives no address and no port, and the sync goes on: its subsets are
\* those computed from the other matching Pods, and it reaches the update
\* call
C23_UndecodableSkipped ==
    /\ [](Synced /\ ~w.err =>
            /\ \A a \in AddrsIn(w.pend.subsets) : a.pod \notin Undecodable(w.snap)
            /\ w.pend.subsets \in ComputedFrom(Without(w.snap, Undecodable(w.snap))))
    /\ [][(wpc = "sync" /\ wpc' # wpc /\ Proceeds(w.key)) => wpc' = "update"]_vars

\* a sync of two matching Pods, one of them without a decodable status,
\* has persisted the address of the other
C23_Witness ==
    /\ wpc = "done" /\ ~w.err /\ w.upd = 1
    /\ Undecodable(w.snap) # {}
    /\ matchingPods(w.snap.pods) = Pods
    /\ AddrsIn(w.pend.subsets) # {}

\* C24: a sync emits a Normal event on the Endpoints object and one on the
\* Service, once each, when its update call has succeeded, and none before
\* the call, when it aborts or when the call fails
C24_EventsFollowWrite ==
    /\ w.normEp <= 1 /\ w.normSvc <= 1
    /\ (w.normEp > 0 \/ w.normSvc > 0) => (wpc \in {"done", "idle", "quit"} /\ ~w.err /\ w.upd = 1)
    /\ (wpc = "done" /\ ~w.err) => (w.upd = 1 /\ w.normEp = 1 /\ w.normSvc = 1)
    /\ w.err => (w.normEp = 0 /\ w.normSvc = 0)

\* a sync has written the Endpoints object and emitted both Normal events
C24_Witness ==
    /\ wpc = "done" /\ ~w.err /\ w.upd = 1
    /\ w.normEp = 1 /\ w.normSvc = 1 /\ w.warn = 0
    /\ apiEp[w.key].exists /\ Content(apiEp[w.key]) = Content(w.pend)

(***************************************************************************)
(* Properties of the running controller as a whole.                        *)
(***************************************************************************)
\* nothing is queued, delayed or in flight
Quiet == queue = <<>> /\ waiting = {} /\ processing = {} /\ wpc = "idle"

\* C25: once the cluster has stopped changing, the notifications of the
\* controller's own Endpoints updates lead to finitely many syncs: the
\* work queue of the running controller becomes empty and stays empty
C25_Quiescence == <>[](Alive => Quiet)

\* the controller's own update was stored, its notification was handled
\* by a further sync, and nothing is left to do
C25_Witness ==
    /\ Alive /\ Quiet /\ budget = 0
    /\ \A k \in Svcs :
           /\ last[k].valid
           /\ cEp[k] = apiEp[k]
           /\ apiEp[k].exists /\ apiEp[k].owner = k
           /\ Content(apiEp[k]) = last[k].content
           /\ limiter[k] = MaxWhen

\* C26: a sync reaches its Endpoints update call only if the annotation of
\* the Service it read parsed into exactly one element
C26_ExactlyOneNetwork ==
    (wpc = "update" \/ w.upd > 0) => Len(svcNetworks(w.snap.svc).nets) = 1

\* an informer stores an object or its deletion and calls the handler
Notifies ==
    /\ wpc' = wpc
    /\ cSvc' # cSvc \/ cPod' # cPod \/ cEp' # cEp

\* C27: every add, update and delete notification of a Service, a Pod or
\* an Endpoints object, a delete notification carrying a tombstone
\* included, is handled without a panic: the process runs on
C27_HandlersReturn == [][Notifies => (mainPc' # "crashed")]_vars

\* C28: the delete handler of the net-attach-def informer runs only once
\* the Pod cache has completed its initial list
C28_ScanAfterPodSync == nad.pc \in {"scan", "create"} => "pod" \in synced

\* the key is owed a sync: it waits for its delay or is marked dirty
Pending(k) == k \in waiting \/ k \in dirty

\* a notification has enqueued the key while a sync of it is in flight
EnqueuedInFlight(k) == k \in processing /\ Pending(k)

\* the in-flight sync has finished and the key is still owed a sync
FinishedPending(k) == k \notin processing /\ Pending(k)

\* C29: no lost wake-up.  In a process that keeps running, with a fair worker
\* and no shutdown, a key that a notification enqueues while a sync of the
\* same key is in flight is still owed a sync when the in-flight sync has
\* finished, and a key owed a sync with no sync in flight gets one: another
\* sync of the key starts after the in-flight one.
C29_NoLostWakeup ==
    \A k \in Svcs :
        /\ EnqueuedInFlight(k) ~> (FinishedPending(k) \/ ~Alive)
        /\ FinishedPending(k) ~> ((k \in processing /\ wpc = "sync") \/ ~Alive)

\* the delay of a key enqueued during its own sync has elapsed while the
\* Endpoints write of that sync is still to come: the key is marked dirty
\* and kept out of the queue
C29_Witness ==
    \E k \in Svcs :
        /\ k \in processing /\ k \in dirty
        /\ wpc = "update" /\ w.key = k
        /\ k \notin {queue[i] : i \in 1..Len(queue)}

\* the annotation of the Service is one unit of the comma separated form
SingleUnit(svc) ==
    /\ svc.exists /\ svc.sel.has
    /\ jsonUnmarshal(svc.sel.val).err
    /\ Count(svc.sel.val, ",") = 0
    /\ ~BadUnit(TrimSpace(svc.sel.val))

\* the name that the unit selects, read off the text of the annotation
SelectedName(svc) == UnitName(TrimSpace(svc.sel.val))

\* the listed Pods whose status decodes, and those with a status entry of
\* the given name that carries an IP
Decodable(snap) ==
    {p \in matchingPods(snap.pods) : ~networksStatus(p, snap.pods[p].status).err}
Reports(p, snap, name) ==
    \E st \in {networksStatus(p, snap.pods[p].status)} :
        \E i \in 1..Len(st.list) : st.list[i].Name = name /\ st.list[i].IPs # <<>>

\* the snapshot with the selection of the Service replaced by the bare name
Bare(snap) == [snap EXCEPT !.svc.sel.val = SelectedName(snap.svc)]

\* C30: in a sync that goes on to the update for a Service selecting one
\* network, a listed Pod with a decodable status contributes addresses if
\* and only if it has a status entry whose name equals the selected name;
\* namespace and interface of the selection play no role: the subsets are
\* those computed for the selection of the bare name.
C30_NameOnly ==
    (Synced /\ ~w.err /\ SingleUnit(w.snap.svc)) =>
        /\ \A p \in Decodable(w.snap) :
               (\E a \in AddrsIn(w.pend.subsets) : a.pod = p /\ a.ip = IPOf[p])
                   <=> Reports(p, w.snap, SelectedName(w.snap.svc))
        /\ w.pend.subsets \in ComputedFrom(Bare(w.snap))

\* a sync for the selection m/a, another namespace than that of the Pods,
\* where the first Pod contributes and the second, reporting b, does not
C30_Witness ==
    /\ Synced /\ ~w.err
    /\ w.snap.svc.sel.val = AnnOther
    /\ \E a \in AddrsIn(w.pend.subsets) : a.pod = "p1" /\ a.ip = IPOf["p1"]
    /\ "p2" \in Decodable(w.snap)
    /\ ~\E a \in AddrsIn(w.pend.subsets) : a.pod = "p2"
====
